---- MODULE Spec2Model ----
(***************************************************************************)
(* Model of the SentIQ provider gateway (llm_adapter.py): the shared       *)
(* TokenBucket, the shelve response cache, the two providers and the       *)
(* router call_llm_router, executed by concurrent request threads.         *)
(*                                                                         *)
(* Units.  Python keeps tokens and time as floats.  Here tokens are        *)
(* counted in sub-units, TokenUnit sub-units to one token, and time in     *)
(* ticks; one tick is the time in which `elapsed * self.rate` amounts to   *)
(* RatePerTick sub-units.  A cost of 1.0 is TokenUnit sub-units.  The      *)
(* bucket reads the clock only as `elapsed = now - self.last`, which it    *)
(* does once per consume, under the lock, before it sets self.last = now.  *)
(* Any amount of time may pass between two such reads, and time.time() is  *)
(* the wall clock, which may have been set back, so every refill draws its *)
(* elapsed time from ElapsedTimes.  ElapsedCap is the time that refills an *)
(* empty bucket.                                                           *)
(*                                                                         *)
(* Specifications.  SpecBucket runs TokenBucket.consume statement by      *)
(* statement under its lock, with callers asking for any cost.  Spec runs  *)
(* the gateway; there a provider's bucket.consume() is one step, Consumed, *)
(* which is what the lock makes of the statements.  The gateway's steps    *)
(* are cut at its accesses to shared state: the cache read, each           *)
(* bucket.consume(), the cache write.  What a thread does on its own       *)
(* between two of them (computing the key, the SDK call) belongs to the    *)
(* step of the access before it.  SpecSafe runs call_llm_safe over the     *)
(* gateway, SpecHash the two hashing functions, SpecScreen and SpecStore   *)
(* the screening pipeline over the table candidates, SpecAgent the         *)
(* functions of the agent on their own.                                    *)
(***************************************************************************)
EXTENDS Integers, Sequences, FiniteSets, TLC

(* ------------------------------ bounds --------------------------------- *)
\* SENTIQ_RPM as configured for the model run (tokens of capacity).
DEFAULT_RPM == 2
\* Sub-units per token: the granularity of fractional tokens.
TokenUnit == 2
\* Sub-units added per tick of elapsed time (self.rate in model units).
RatePerTick == 1
\* Dispatches started in one run.
MaxDispatches == 2

Threads == {"t1", "t2"}
None == "None"

\* Texts a provider may answer with.
Replies == {"reply-1", "reply-2"}

Min(a, b) == IF a <= b THEN a ELSE b

VARIABLES
    bucket,     \* the module-level TokenBucket: [tokens, lock]
    th,         \* per request thread: position and locals
    cache,      \* the shelve file: key -> text
    config,     \* credentials and SDKs found at import time
    dispatched, \* dispatches started so far
    epochAvail, \* history: tokens in the bucket when time last passed
    epochSpent, \* history: cost admitted since time last passed
    excess,     \* history: the most that was admitted over an interval that
                \* ends now, above what the rate refills in its length
    audit,      \* history: the consume call last in the critical section
    liveDone,   \* history: key -> texts that dispatches returned from a provider
    stored,     \* history: keys whose cache write was completed without error
    hashIn,     \* the arguments of two calls of a hashing function
    hashOut,    \* what the two calls hashed
    candidates, \* the rows of the table candidates
    sqlite_sequence, \* the AUTOINCREMENT counter of the table
    locked,     \* a connection that was never closed holds the write lock
    req,        \* per request thread: position and locals of screen_files
    done,       \* history: the requests and clears completed, in order
    paid,       \* history: cache key -> answers that live providers gave
    agentIn,    \* the function of the agent that is called, and its argument
    agentOut,   \* what the call gave
    safe        \* per request thread: position and locals of call_llm_safe

vars == <<bucket, th, cache, config, dispatched,
          epochAvail, epochSpent, excess, audit, liveDone, stored,
          hashIn, hashOut,
          candidates, sqlite_sequence, locked, req, done, paid,
          agentIn, agentOut, safe>>
\* what the gateway and the bucket do not touch
hashVars == <<hashIn, hashOut>>
screenVars == <<candidates, sqlite_sequence, locked, req, done, paid>>
agentVars == <<agentIn, agentOut>>
safeVars == <<safe>>
serviceVars == <<hashVars, screenVars, agentVars, safeVars>>
gatewayVars == <<cache, config, dispatched, liveDone, stored>>
epochVars == <<epochAvail, epochSpent, excess>>

(* --------------------------- TokenBucket ------------------------------- *)
rate == RatePerTick
capacity == DEFAULT_RPM * TokenUnit
OneToken == TokenUnit

\* ceil(capacity / rate): the elapsed time that fills the bucket from empty
ElapsedCap == (capacity + rate - 1) \div rate

\* elapsed = now - self.last, for the tokens the bucket holds: the clock has
\* advanced by up to ElapsedCap, or has been set back, by no more than
\* leaves the bucket within one capacity below empty.
ElapsedTimes(tokens) ==
    {e \in (0 - ElapsedCap)..ElapsedCap : tokens + e * rate >= 0 - capacity}

\* The history excess after `elapsed` has passed and `admitted` was let
\* through.  Of the intervals that end now, the one that began before this
\* time passed has its admitted cost above the refill of its length
\* lowered by elapsed * rate; the one that begins now has none.
Exceeded(before, elapsed, admitted) ==
    (IF before - elapsed * rate > 0 THEN before - elapsed * rate ELSE 0) + admitted

\* Costs a direct caller of consume may ask for: a fraction of a token, one
\* token, the whole capacity, more than the capacity.
Costs == {1, OneToken, capacity, capacity + 1}

\* TokenBucket.__init__
BucketInit == [tokens |-> capacity, lock |-> None]

\* A bucket that is refilled without limit.
RefilledUncapped(tokens, elapsed) == tokens + elapsed * rate

\* self.tokens = min(self.capacity, self.tokens + elapsed * self.rate)
Refilled(tokens, elapsed) == Min(capacity, tokens + elapsed * rate)

\* if self.tokens >= tokens
Admits(tokens, cost) == tokens >= cost

\* A consume that does not wait for the lock.
LockIgnored == TRUE

\* `with self.lock` can be entered
LockFree == bucket.lock = None

\* A thread outside any call.  cost is the argument of consume; the rest are
\* the arguments and locals of call_llm_router that it reads again after
\* its first step, with ret the value returned and readFailed, hit and calls
\* the record of the dispatch: whether the cache check raised, whether the
\* text came from the cache, the providers invoked with their outcomes.
IdleThread ==
    [pc |-> "idle", cost |-> 0,
     prompt |-> None, category |-> None, sim |-> FALSE, prefer |-> None,
     key |-> None, idx |-> 0, result |-> None, ret |-> None,
     calls |-> << >>, hit |-> FALSE, readFailed |-> FALSE]

\* The record of a consume call: tokens before the refill, elapsed time,
\* cost, answer, tokens left.
NoAudit == [pre |-> 0, elapsed |-> 0, cost |-> 0, admit |-> FALSE,
            post |-> 0, done |-> FALSE]

\* with self.lock:
ConsumeAcquire(t) ==
    /\ th[t].pc = "c_lock"
    /\ LockFree
    /\ bucket' = [bucket EXCEPT !.lock = t]
    /\ th' = [th EXCEPT ![t].pc = "c_refill"]
    /\ UNCHANGED <<epochVars, audit, gatewayVars>>
    /\ UNCHANGED serviceVars

\* now = time.time(); elapsed = now - self.last; self.last = now;
\* self.tokens = min(...)
ConsumeRefill(t) ==
    /\ th[t].pc = "c_refill"
    /\ \E elapsed \in ElapsedTimes(bucket.tokens) :
        /\ bucket' = [bucket EXCEPT !.tokens = Refilled(bucket.tokens, elapsed)]
        /\ audit' = [NoAudit EXCEPT !.pre = bucket.tokens,
                                    !.elapsed = elapsed,
                                    !.cost = th[t].cost]
        /\ IF elapsed # 0
           THEN /\ epochAvail' = Refilled(bucket.tokens, elapsed)
                /\ epochSpent' = 0
           ELSE UNCHANGED <<epochAvail, epochSpent>>
        /\ excess' = Exceeded(excess, elapsed, 0)
    /\ th' = [th EXCEPT ![t].pc = "c_check"]
    /\ UNCHANGED gatewayVars
    /\ UNCHANGED serviceVars

\* if self.tokens >= tokens: ... else: return False (the lock is released)
ConsumeCheck(t) ==
    /\ th[t].pc = "c_check"
    /\ IF Admits(bucket.tokens, th[t].cost)
       THEN /\ th' = [th EXCEPT ![t].pc = "c_sub"]
            /\ UNCHANGED <<bucket, audit>>
       ELSE /\ th' = [th EXCEPT ![t].pc = "c_done"]
            /\ bucket' = [bucket EXCEPT
                            !.lock = IF bucket.lock = t THEN None ELSE @]
            /\ audit' = [audit EXCEPT !.admit = FALSE,
                                      !.post = bucket.tokens,
                                      !.done = TRUE]
    /\ UNCHANGED <<epochVars, gatewayVars>>
    /\ UNCHANGED serviceVars

\* self.tokens -= tokens; return True (the lock is released)
ConsumeSubtract(t) ==
    /\ th[t].pc = "c_sub"
    /\ bucket' = [bucket EXCEPT !.tokens = @ - th[t].cost,
                                !.lock = IF bucket.lock = t THEN None ELSE @]
    /\ th' = [th EXCEPT ![t].pc = "c_done"]
    /\ audit' = [audit EXCEPT !.admit = TRUE,
                              !.post = bucket.tokens - th[t].cost,
                              !.done = TRUE]
    /\ epochSpent' = epochSpent + th[t].cost
    /\ excess' = Exceeded(excess, 0, th[t].cost)
    /\ UNCHANGED <<epochAvail, gatewayVars>>
    /\ UNCHANGED serviceVars

\* a caller enters bucket.consume(cost)
BucketCall(t) ==
    /\ th[t].pc = "idle"
    /\ \E cost \in Costs :
        th' = [th EXCEPT ![t] = [IdleThread EXCEPT !.pc = "c_lock",
                                                   !.cost = cost]]
    /\ UNCHANGED <<bucket, epochVars, audit, gatewayVars>>
    /\ UNCHANGED serviceVars

\* the caller has its answer
BucketReturn(t) ==
    /\ th[t].pc = "c_done"
    /\ th' = [th EXCEPT ![t] = IdleThread]
    /\ audit' = IF audit.done THEN NoAudit ELSE audit
    /\ UNCHANGED <<bucket, epochVars, gatewayVars>>
    /\ UNCHANGED serviceVars

\* Elapsed times read by the consume of a provider call: none since the last
\* refill, or enough to fill the bucket (the gateway is run with a clock
\* that is not set back).
GatewayElapsed == {0, ElapsedCap}

\* consume(cost) as the single step the lock makes it: the answer and the
\* tokens left, for a bucket b read `elapsed` after its last refill
Consumed(b, elapsed, cost) ==
    LET refilled == Refilled(b.tokens, elapsed) IN
    IF Admits(refilled, cost)
    THEN [admit |-> TRUE, tokens |-> refilled - cost]
    ELSE [admit |-> FALSE, tokens |-> refilled]

(* ----------------------------- Gateway --------------------------------- *)
GEMINI_MODEL == "gemini-2.5-flash"
GROQ_MODEL == "llama3-70b-8192"
overload_msg == "SYSTEM OVERLOAD: All language model providers are currently unavailable. Please try again later or enable simulation mode."

\* prompt[:200] in simulated_response
SummaryCut == 200

RECURSIVE Repeat(_, _)
Repeat(s, n) == IF n = 0 THEN "" ELSE s \o Repeat(s, n - 1)

\* Arguments of the dispatches.  Simulated dispatches draw from the
\* categories simulated_response knows and from prompts on both sides of the
\* 200-character cut; live dispatches draw from LiveCategories/LivePrompts.
LongPrompt == Repeat("a", SummaryCut) \o "b"
SimPrompts == {"hi", LongPrompt}
SimCategories == {"summarize", "code_help", "general"}
\* A prompt that holds a lone surrogate (Python writes it "\ud800").
SurrogatePrompt == "resume<U+D800>"
LivePrompts == {"resume", SurrogatePrompt}
LiveCategories == {"recruiter_eval"}
ModelOverrides == {None, "custom-model"}
PreferHints == {None, "groq"}
\* (model_override, prefer) of the dispatches: an override comes with the
\* default preference.
LiveArgs ==
    {a \in ModelOverrides \X PreferHints : a[1] = None \/ a[2] = None}

\* def simulated_response(prompt, category)
simulated_response(prompt, category) ==
    IF category = "summarize"
    THEN "SIMULATED SUMMARY: " \o
         (IF Len(prompt) > SummaryCut
          THEN SubSeq(prompt, 1, SummaryCut) \o "."
          ELSE prompt)
    ELSE IF category = "code_help"
    THEN "SIMULATED CODE HELP: Check variable initialization or off-by-one errors."
    ELSE IF category = "grammar"
    THEN "SIMULATED GRAMMAR: Suggested correction: 'Your sentence corrected.'"
    ELSE IF category = "small_talk"
    THEN "SIMULATED CHAT: Nice! How can I help you further?"
    ELSE "SIMULATED ANSWER: I would search documentation or ask a clarifying question."

\* str.encode("utf-8") raises UnicodeEncodeError on a lone surrogate
Utf8Encodable(text) == text # SurrogatePrompt

\* def _cache_key(prompt, category, model): the string that is hashed, for a
\* string that encodes; sha256 is taken to be injective, so the string
\* stands for its digest.
_cache_key(prompt, category, model) ==
    model \o "|" \o category \o "|" \o prompt

\* cache_model = model_override or (GEMINI_MODEL if prefer != "groq" else GROQ_MODEL)
cache_model(model_override, prefer) ==
    IF model_override # None /\ model_override # ""
    THEN model_override
    ELSE IF prefer # "groq" THEN GEMINI_MODEL ELSE GROQ_MODEL

\* providers_sequence
providers_sequence(prefer) ==
    IF prefer = "groq" THEN <<"groq", "gemini">> ELSE <<"gemini", "groq">>

\* dict operations of the shelve file (and of the history maps)
Has(d, k) == k \in DOMAIN d
Put(d, k, v) == [x \in DOMAIN d \cup {k} |-> IF x = k THEN v ELSE d[x]]
Get(d, k, default) == IF k \in DOMAIN d THEN d[k] ELSE default
EmptyDict == [x \in {} |-> None]

\* The checks a provider makes before it asks the bucket: "ok", or the reason
\* it raises.  _call_gemini_sdk tests the key, then _invoke_genai the SDK;
\* _invoke_groq_llama tests the SDK, then the key.
Precheck(provider) ==
    IF provider = "gemini"
    THEN IF ~config.gemini_key THEN "no_key"
         ELSE IF ~config.genai_sdk THEN "no_sdk" ELSE "ok"
    ELSE IF ~config.groq_sdk THEN "no_sdk"
         ELSE IF ~config.groq_key THEN "no_key" ELSE "ok"

\* Each provider is ready, or lacks its key, or lacks its SDK (one that lacks
\* both fails on the check it makes first, like one that lacks only that).
Configs ==
    {c \in [gemini_key : BOOLEAN, genai_sdk : BOOLEAN,
            groq_key : BOOLEAN, groq_sdk : BOOLEAN] :
        /\ c.gemini_key \/ c.genai_sdk
        /\ c.groq_key \/ c.groq_sdk}

CurrentProvider(s) == providers_sequence(s.prefer)[s.idx]

\* A cache check whose exception leaves the router.
OnCacheReadErrorRaise(s) == [s EXCEPT !.pc = "raised", !.readFailed = TRUE]

\* except Exception around the cache check: logged, execution goes on to the
\* provider loop
OnCacheReadError(s) ==
    [s EXCEPT !.pc = "provider", !.idx = 1, !.readFailed = TRUE]

\* A lookup that hands back the key in place of the entry.
CacheReadDigest(c, k) == k

\* cache[key], read
CacheRead(c, k) == c[k]

\* A hit that is ignored: the router goes on to the providers.
OnCacheHitRefetch(s, text) == [s EXCEPT !.pc = "provider", !.idx = 1]

\* if key in cache: return cache[key]
OnCacheHit(s, text) ==
    [s EXCEPT !.pc = "returned", !.hit = TRUE, !.ret = text]

\* A handler that lets the exception of the last provider escape.
OnProviderErrorReraise(s, reason) ==
    [s EXCEPT !.calls = Append(@, [provider |-> CurrentProvider(s),
                                    outcome |-> reason, text |-> None]),
              !.idx = @ + 1,
              !.pc = IF s.idx + 1 > Len(providers_sequence(s.prefer))
                     THEN "raised" ELSE "provider"]

\* except Exception in the provider loop: last_exc = e; continue
OnProviderError(s, reason) ==
    [s EXCEPT !.calls = Append(@, [provider |-> CurrentProvider(s),
                                    outcome |-> reason, text |-> None]),
              !.idx = @ + 1,
              !.pc = IF s.idx + 1 > Len(providers_sequence(s.prefer))
                     THEN "finish" ELSE "provider"]

\* A loop without the break: the next provider is tried after a success.
OnProviderSuccessContinue(s, text) ==
    [s EXCEPT !.calls = Append(@, [provider |-> CurrentProvider(s),
                                    outcome |-> "ok", text |-> text]),
              !.result = text,
              !.idx = @ + 1,
              !.pc = IF s.idx + 1 > Len(providers_sequence(s.prefer))
                     THEN "finish" ELSE "provider"]

\* result = <provider>(...); break
OnProviderSuccess(s, text) ==
    [s EXCEPT !.calls = Append(@, [provider |-> CurrentProvider(s),
                                    outcome |-> "ok", text |-> text]),
              !.result = text,
              !.pc = "finish"]

\* A simulation path that asks the bucket like a provider does.
DispatchSimulatedThrottled(t) ==
    /\ th[t].pc = "idle"
    /\ dispatched < MaxDispatches
    /\ dispatched' = dispatched + 1
    /\ \E p \in SimPrompts, c \in SimCategories :
        th' = [th EXCEPT ![t] =
                 [IdleThread EXCEPT !.pc = "returned", !.prompt = p,
                     !.category = c, !.sim = TRUE,
                     !.ret = simulated_response(p, c)]]
    /\ bucket' = [bucket EXCEPT !.tokens = Consumed(bucket, 0, OneToken).tokens]
    /\ UNCHANGED <<cache, config, epochVars, audit, liveDone, stored>>
    /\ UNCHANGED serviceVars

\* call_llm_router(..., use_simulation=True): sleep, return
\* simulated_response(prompt, category); model_override and prefer are not
\* read
DispatchSimulated(t) ==
    /\ th[t].pc = "idle"
    /\ dispatched < MaxDispatches
    /\ dispatched' = dispatched + 1
    /\ \E p \in SimPrompts, c \in SimCategories,
          m \in ModelOverrides, h \in PreferHints :
        th' = [th EXCEPT ![t] =
                 [IdleThread EXCEPT !.pc = "returned", !.prompt = p,
                     !.category = c, !.sim = TRUE,
                     !.ret = simulated_response(p, c)]]
    /\ UNCHANGED <<bucket, cache, config, epochVars, audit, liveDone, stored>>
    /\ UNCHANGED serviceVars

\* call_llm_router(..., use_simulation=False) up to the end of the cache
\* check: the key is computed, outside any try, so that the exception of a
\* prompt that does not encode leaves the router; then the read fails, or
\* finds the key, or does not
CacheCheck(t, p, c, m, h) ==
    LET k == _cache_key(p, c, cache_model(m, h))
        s == [IdleThread EXCEPT !.pc = "cache_check", !.prompt = p,
                 !.category = c, !.prefer = h, !.key = k] IN
    \/ /\ ~Utf8Encodable(p)
       /\ th' = [th EXCEPT ![t] = [IdleThread EXCEPT !.pc = "raised",
                                                     !.prompt = p]]
    \/ /\ Utf8Encodable(p)
       /\ th' = [th EXCEPT ![t] = OnCacheReadError(s)]
    \/ /\ Utf8Encodable(p)
       /\ Has(cache, k)
       /\ th' = [th EXCEPT ![t] = OnCacheHit(s, CacheRead(cache, k))]
    \/ /\ Utf8Encodable(p)
       /\ ~Has(cache, k)
       /\ th' = [th EXCEPT ![t] = [s EXCEPT !.pc = "provider", !.idx = 1]]

\* a request thread calls call_llm_router(..., use_simulation=False)
Dispatch(t) ==
    /\ th[t].pc = "idle"
    /\ dispatched < MaxDispatches
    /\ dispatched' = dispatched + 1
    /\ \E p \in LivePrompts, c \in LiveCategories, a \in LiveArgs :
        CacheCheck(t, p, c, a[1], a[2])
    /\ UNCHANGED <<bucket, cache, config, epochVars, audit, liveDone, stored>>
    /\ UNCHANGED serviceVars

\* A provider that goes on to the network whatever the bucket answered.
RateLimitIgnored(c) == FALSE

\* if not bucket.consume(): raise RuntimeError("Rate limit reached ...")
RateLimited(c) == ~c.admit

\* One turn of the provider loop.  A provider that lacks its key or its SDK
\* raises; otherwise it calls bucket.consume() and raises "Rate limit
\* reached" when that is refused; otherwise it makes the SDK call, which
\* answers with a text or raises.
ProviderCall(t) ==
    /\ th[t].pc = "provider"
    /\ LET why == Precheck(CurrentProvider(th[t])) IN
        IF why # "ok"
        THEN /\ th' = [th EXCEPT ![t] = OnProviderError(th[t], why)]
             /\ UNCHANGED <<bucket, excess>>
        ELSE /\ LockFree
             /\ \E elapsed \in GatewayElapsed :
                 LET c == Consumed(bucket, elapsed, OneToken) IN
                 /\ bucket' = [bucket EXCEPT !.tokens = c.tokens]
                 /\ excess' = Exceeded(excess, elapsed,
                                       IF RateLimited(c) THEN 0 ELSE OneToken)
                 /\ IF RateLimited(c)
                    THEN th' = [th EXCEPT ![t] =
                                  OnProviderError(th[t], "rate_limited")]
                    ELSE \/ th' = [th EXCEPT ![t] =
                                     OnProviderError(th[t], "sdk_error")]
                         \/ \E r \in Replies :
                              th' = [th EXCEPT ![t] =
                                       OnProviderSuccess(th[t], r)]
    /\ UNCHANGED <<cache, config, dispatched, epochAvail, epochSpent, audit,
                   liveDone, stored>>
    /\ UNCHANGED serviceVars

\* cache[key] = result
CacheWrite(c, k, v) == Put(c, k, v)

\* 3) the result is cached (the write may fail, before or after the entry is
\* in the file) and returned
ReturnResult(t) ==
    /\ th[t].pc = "finish"
    /\ th[t].result # None
    /\ \/ /\ cache' = CacheWrite(cache, th[t].key, th[t].result)
          /\ stored' = stored \cup {th[t].key}
       \/ /\ cache' \in {cache, CacheWrite(cache, th[t].key, th[t].result)}
          /\ UNCHANGED stored
    /\ th' = [th EXCEPT ![t].pc = "returned", ![t].ret = th[t].result]
    /\ liveDone' = Put(liveDone, th[t].key,
                       Get(liveDone, th[t].key, {}) \cup {th[t].result})
    /\ UNCHANGED <<bucket, config, dispatched, epochVars, audit>>
    /\ UNCHANGED serviceVars

\* A router that caches what it returns, whatever it is.
AdvisoryCached(c, k) == CacheWrite(c, k, overload_msg)

\* if result: ... cache[key] = result: no write when no provider gave a
\* result
AfterOverload(c, k) == c

\* 4) return overload_msg
ReturnOverload(t) ==
    /\ th[t].pc = "finish"
    /\ th[t].result = None
    /\ th' = [th EXCEPT ![t].pc = "returned", ![t].ret = overload_msg]
    /\ cache' = AfterOverload(cache, th[t].key)
    /\ UNCHANGED <<bucket, epochVars, audit, config, dispatched, liveDone, stored>>
    /\ UNCHANGED serviceVars

\* the caller takes the text, or the exception; the thread is free for its
\* next call
Reset(t) ==
    /\ th[t].pc \in {"returned", "raised"}
    /\ th' = [th EXCEPT ![t] = IdleThread]
    /\ UNCHANGED <<bucket, epochVars, audit, gatewayVars>>
    /\ UNCHANGED serviceVars

(* --------------------------- call_llm_safe ----------------------------- *)
\* The largest retries argument of the calls made.
MaxRetries == 2

unavailable_msg == "SYSTEM: Temporary AI unavailability. Please retry later."

\* A thread outside call_llm_safe; inside, the arguments it hands on, the
\* passes of the loop begun, and the record of the call: how each attempt
\* ended (with its text, or "raised"), and the value returned.
IdleSafe ==
    [pc |-> "idle", retries |-> 0, prompt |-> None, category |-> None,
     sim |-> FALSE, model_override |-> None, prefer |-> None,
     attempts |-> 0, log |-> << >>, ret |-> None]

\* (prompt, use_simulation) of the calls: a prompt that encodes, and one that
\* does not, which simulation does not encode at all.  The category is the
\* one of the live dispatches, model_override and prefer are left out.
SafeArgs == {<<"resume", FALSE>>, <<SurrogatePrompt, FALSE>>,
             <<SurrogatePrompt, TRUE>>}

\* A loop that makes one pass more.
OnePassMore(s) == s.attempts < s.retries + 2

\* for _ in range(retries + 1): another pass is left
PassLeft(s) == s.attempts < s.retries + 1

\* call_llm_safe(*args, retries=r, **kwargs) is called, once by a thread;
\* the attempts it can make are within the dispatches of the run
SafeCall(t) ==
    /\ safe[t].pc = "idle"
    /\ th[t].pc = "idle"
    /\ \E r \in 0..MaxRetries, a \in SafeArgs, c \in LiveCategories :
        /\ dispatched + r + 1 <= MaxDispatches + 1
        /\ safe' = [safe EXCEPT ![t] =
                      [IdleSafe EXCEPT !.pc = "loop", !.retries = r,
                                       !.prompt = a[1], !.category = c,
                                       !.sim = a[2]]]
    /\ UNCHANGED <<bucket, th, cache, config, dispatched, epochVars, audit,
                   liveDone, stored>>
    /\ UNCHANGED <<hashVars, screenVars, agentVars>>

\* The head of the loop.  With a pass left, call_llm_router is called with
\* the arguments of the call: the simulation path, or the key and the cache
\* check.  With none left, the fixed string is returned.
SafeAttempt(t) ==
    /\ safe[t].pc = "loop"
    /\ th[t].pc = "idle"
    /\ LET s == safe[t] IN
        IF PassLeft(s)
        THEN /\ safe' = [safe EXCEPT ![t].attempts = @ + 1]
             /\ dispatched' = dispatched + 1
             /\ IF s.sim
                THEN th' = [th EXCEPT ![t] =
                              [IdleThread EXCEPT
                                 !.pc = "returned", !.prompt = s.prompt,
                                 !.category = s.category, !.sim = TRUE,
                                 !.ret = simulated_response(s.prompt, s.category)]]
                ELSE CacheCheck(t, s.prompt, s.category, s.model_override, s.prefer)
        ELSE /\ safe' = [safe EXCEPT ![t].pc = "done",
                                     ![t].ret = unavailable_msg]
             /\ UNCHANGED <<th, dispatched>>
    /\ UNCHANGED <<bucket, cache, config, epochVars, audit, liveDone, stored>>
    /\ UNCHANGED <<hashVars, screenVars, agentVars>>

\* call_llm_router has returned, and call_llm_safe returns its text; or it
\* has raised, and the exception is caught: the loop goes on
SafeSettle(t) ==
    /\ safe[t].pc = "loop"
    /\ th[t].pc \in {"returned", "raised"}
    /\ safe' = [safe EXCEPT ![t] =
                  IF th[t].pc = "returned"
                  THEN [@ EXCEPT !.pc = "done", !.ret = th[t].ret,
                                 !.log = Append(@, th[t].ret)]
                  ELSE [@ EXCEPT !.log = Append(@, "raised")]]
    /\ th' = [th EXCEPT ![t] = IdleThread]
    /\ UNCHANGED <<bucket, cache, config, dispatched, epochVars, audit,
                   liveDone, stored>>
    /\ UNCHANGED <<hashVars, screenVars, agentVars>>

(* ----------------------- keys and fingerprints ------------------------- *)
\* everything the gateway and the bucket own
routerVars == <<bucket, th, cache, config, dispatched,
                epochAvail, epochSpent, excess, audit, liveDone, stored>>

\* A fingerprint taken of the resume alone.
FingerprintOfResume(resume_text, job_description) == resume_text

\* def make_fingerprint(resume_text, job_description): the string that is
\* hashed; sha256 is taken to be injective, so the string stands for its
\* digest.
make_fingerprint(resume_text, job_description) ==
    resume_text \o job_description

\* Arguments of the key computation of call_llm_router: model ids and
\* categories with and without the character that _cache_key joins with.
KeyPrompts == {"resume", "hi"}
KeyCategories == {"recruiter_eval", "x", "c|x"}
KeyModelOverrides == {None, "m", "m|c"}
KeyArgs == KeyPrompts \X KeyCategories \X KeyModelOverrides \X PreferHints

\* Resume and job texts, trimmed and not empty, some a prefix of another.
ResumeTexts == {"a", "ab"}
JobTexts == {"b", "c", "bc"}
FingerprintArgs == ResumeTexts \X JobTexts

NoHash == [fn |-> None, a |-> << >>, b |-> << >>]
HashCalls ==
    [fn : {"_cache_key"}, a : KeyArgs, b : KeyArgs]
    \cup [fn : {"make_fingerprint"}, a : FingerprintArgs, b : FingerprintArgs]

\* cache_model = model_override or (...); key = _cache_key(prompt, category,
\* cache_model), for the arguments <<prompt, category, model_override, prefer>>
RouterKey(a) == _cache_key(a[1], a[2], cache_model(a[3], a[4]))

\* two dispatches compute their cache keys
HashKeys ==
    /\ hashIn.fn = "_cache_key"
    /\ hashOut = << >>
    /\ hashOut' = <<RouterKey(hashIn.a), RouterKey(hashIn.b)>>
    /\ UNCHANGED <<hashIn, routerVars, screenVars, agentVars, safeVars>>

\* two screening requests compute their fingerprints
HashFingerprints ==
    /\ hashIn.fn = "make_fingerprint"
    /\ hashOut = << >>
    /\ hashOut' = <<make_fingerprint(hashIn.a[1], hashIn.a[2]),
                    make_fingerprint(hashIn.b[1], hashIn.b[2])>>
    /\ UNCHANGED <<hashIn, routerVars, screenVars, agentVars, safeVars>>

(* ------------------------- screening pipeline -------------------------- *)
\* Screening requests and bulk clears started in one run.
MaxRequests == 2

\* resume_text[:3000] in extract_candidate_name
NameCut == 3000

\* Texts a provider answers with: a JSON object that has the fields both
\* prompts ask for, and JSON that is not an object.  The replies of the
\* screening runs are these two and an evaluation with a score above 100.
ObjectReply == "{\"name\": \"Ann Lee\", \"confidence\": 0.9, \"score\": 80, \"pros\": [], \"cons\": [], \"rationale\": \"fine\"}"
ListReply == "[1]"

\* Other texts a provider can answer with.  JSON that is not an object, and
\* an object without fields:
NullReply == "null"
NumberReply == "42"
EmptyObjectReply == "{}"
\* an object between two pieces of prose, the second with or without a
\* brace of its own:
WrappedReply == "Here is the evaluation: " \o ObjectReply \o " Thanks."
TrailingBraceReply == "Result: " \o ObjectReply \o " (see {notes})"
\* braces around no JSON, and no braces at all:
BracesReply == "{not json}"
PlainReply == "I cannot evaluate this resume."
\* evaluations whose score is outside 0..100 or is null:
HighScoreReply == "{\"score\": 150, \"pros\": [], \"cons\": [], \"rationale\": \"fine\"}"
NullScoreReply == "{\"score\": null, \"pros\": [], \"cons\": [], \"rationale\": \"fine\"}"
\* names with their confidence:
LowConfidenceReply == "{\"name\": \"Ann Lee\", \"confidence\": 0.5}"
LongNameReply == "{\"name\": \"Ann Bea Cee Dee Lee\", \"confidence\": 0.9}"
NullNameReply == "{\"name\": null, \"confidence\": 0}"
NoConfidenceReply == "{\"name\": \"Ann Lee\"}"
TextConfidenceReply == "{\"name\": \"Ann Lee\", \"confidence\": \"high\"}"
PaddedNameReply == "{\"name\": \" Ann Lee \", \"confidence\": 0.85}"

\* what a provider answers in the screening runs, to the name prompt and
\* to the evaluation prompt
NameReplies == {ObjectReply, ListReply}
ScreenReplies == {ObjectReply, ListReply, HighScoreReply}

\* An uploaded file: its name, the suffix of the name and its text.
File(name, suffix, text) == [name |-> name, suffix |-> suffix, text |-> text]
\* A call of screen_files: the files and the job description.
Call(files, job_description) == [files |-> files, job_description |-> job_description]

\* The calls of screen_files.  Two with one file each, their pairs of texts
\* with the same concatenation; one with two files, its first pair with
\* another concatenation and its second file blank; one with a blank job
\* description.
ScreenCalls ==
    {Call(<<File("ab.txt", ".txt", "ab")>>, "c"),
     Call(<<File("a.txt", ".txt", "a ")>>, "bc"),
     Call(<<File("a.txt", ".txt", "a "), File("blank.txt", ".txt", "  ")>>, "c"),
     Call(<<File("a.txt", ".txt", "a ")>>, " ")}

\* A parsed JSON object: its keys, and of the values the code reads the
\* name, the confidence (in hundredths) and the score with their JSON types.
JsonObject(keys, name, confidence_type, confidence, score_type, score, rationale) ==
    [kind |-> "dict", keys |-> keys, name |-> name,
     confidence_type |-> confidence_type, confidence |-> confidence,
     score_type |-> score_type, score |-> score, rationale |-> rationale]

EvaluationKeys == {"score", "pros", "cons", "rationale"}
NameKeys == {"name", "confidence"}

\* json.loads(raw) for the texts a dispatch can return: the value, or that
\* it raises.  The advisory string is not JSON, and neither is any text with
\* prose around an object.
json_loads(raw) ==
    IF raw = ObjectReply
    THEN JsonObject(EvaluationKeys \cup NameKeys, "Ann Lee", "float", 90, "int", 80, "fine")
    ELSE IF raw = ListReply THEN [kind |-> "list"]
    ELSE IF raw = NullReply THEN [kind |-> "none"]
    ELSE IF raw = NumberReply THEN [kind |-> "number"]
    ELSE IF raw = EmptyObjectReply
    THEN JsonObject({}, None, "missing", 0, "missing", 0, None)
    ELSE IF raw = HighScoreReply
    THEN JsonObject(EvaluationKeys, None, "missing", 0, "int", 150, "fine")
    ELSE IF raw = NullScoreReply
    THEN JsonObject(EvaluationKeys, None, "missing", 0, "null", 0, "fine")
    ELSE IF raw = LowConfidenceReply
    THEN JsonObject(NameKeys, "Ann Lee", "float", 50, "missing", 0, None)
    ELSE IF raw = LongNameReply
    THEN JsonObject(NameKeys, "Ann Bea Cee Dee Lee", "float", 90, "missing", 0, None)
    ELSE IF raw = NullNameReply
    THEN JsonObject(NameKeys, None, "float", 0, "missing", 0, None)
    ELSE IF raw = NoConfidenceReply
    THEN JsonObject({"name"}, "Ann Lee", "missing", 0, "missing", 0, None)
    ELSE IF raw = TextConfidenceReply
    THEN JsonObject(NameKeys, "Ann Lee", "str", 0, "missing", 0, None)
    ELSE IF raw = PaddedNameReply
    THEN JsonObject(NameKeys, " Ann Lee ", "float", 85, "missing", 0, None)
    ELSE [kind |-> "raises"]

\* len(name.split())
RECURSIVE Words(_, _, _)
Words(s, i, inWord) ==
    IF i > Len(s) THEN 0
    ELSE IF SubSeq(s, i, i) = " " THEN Words(s, i + 1, FALSE)
    ELSE (IF inWord THEN 0 ELSE 1) + Words(s, i + 1, TRUE)

\* name.strip()
RECURSIVE Strip(_)
Strip(s) ==
    IF s = "" THEN s
    ELSE IF SubSeq(s, 1, 1) = " " THEN Strip(SubSeq(s, 2, Len(s)))
    ELSE IF SubSeq(s, Len(s), Len(s)) = " " THEN Strip(SubSeq(s, 1, Len(s) - 1))
    ELSE s

\* what extract_candidate_name returns, its confidence in hundredths
NameResult(name, confidence) == [name |-> name, confidence |-> confidence]

\* extract_candidate_name(resume_text), from the text raw that the dispatch
\* returned: float() of a confidence that is null or is not the text of a
\* number raises, and so does .get on what is not an object; every
\* exception is caught
extract_candidate_name(raw) ==
    LET data == json_loads(raw) IN
    IF data.kind # "dict" THEN NameResult(None, 0)
    ELSE IF data.confidence_type \in {"null", "str"} THEN NameResult(None, 0)
    ELSE LET confidence == IF data.confidence_type = "missing" THEN 0
                           ELSE data.confidence IN
         IF data.name = None \/ data.name = "" \/ confidence < 85
         THEN NameResult(None, confidence)
         ELSE IF Words(data.name, 1, FALSE) > 4 THEN NameResult(None, 0)
         ELSE NameResult(Strip(data.name), confidence)

\* re.search(r"\{.*\}", raw, re.S): from the first "{" to the last "}"
BraceMatch(raw) ==
    LET opens == {i \in 1..Len(raw) : SubSeq(raw, i, i) = "{"}
        closes == {i \in 1..Len(raw) : SubSeq(raw, i, i) = "}"} IN
    IF opens = {} \/ closes = {} THEN None
    ELSE LET i == CHOOSE x \in opens : \A y \in opens : x <= y
             j == CHOOSE x \in closes : \A y \in closes : y <= x IN
         IF i < j THEN SubSeq(raw, i, j) ELSE None

\* the "Guaranteed return" of analyze_fit
FallbackEvaluation ==
    JsonObject(EvaluationKeys, None, "missing", 0, "int", 0,
               "Evaluation could not be generated reliably.")

\* RecruiterBot.analyze_fit, from the text raw that the dispatch returned
analyze_fit(raw) ==
    LET parsed == json_loads(raw) IN
    IF parsed.kind # "raises" THEN parsed
    ELSE LET match == BraceMatch(raw) IN
         IF match # None /\ json_loads(match).kind # "raises"
         THEN json_loads(match)
         ELSE FallbackEvaluation

\* A decision, its confidence in hundredths; or the exception that leaves
\* recommend_action.
Decision(recommendation, confidence, reason) ==
    [raised |-> FALSE, recommendation |-> recommendation,
     confidence |-> confidence, reason |-> reason]
DecisionRaises ==
    [raised |-> TRUE, recommendation |-> None, confidence |-> 0,
     reason |-> "TypeError"]

\* score = evaluation.get("score", 0), then `score >= 75`: the default is
\* taken for a missing key only, and the comparison raises TypeError for
\* None and for a string
ScoreOf(evaluation) ==
    IF evaluation.score_type = "int"
    THEN [raises |-> FALSE, value |-> evaluation.score]
    ELSE IF evaluation.score_type = "missing"
    THEN [raises |-> FALSE, value |-> 0]
    ELSE [raises |-> TRUE, value |-> 0]

\* A decision step whose interview band starts one point higher.
InterviewAbove(score) == score > 75

\* if score >= 75
InterviewFrom(score) == score >= 75

\* An interview confidence that is not capped.
InterviewConfidenceUncapped(score) == 80 + 2 * (score - 75)

\* round(min(0.95, 0.8 + (score - 75) / 50), 2), in hundredths
InterviewConfidence(score) == Min(95, 80 + 2 * (score - 75))

\* round(min(0.9, 0.6 + (60 - score) / 60), 2), in hundredths: 100/60 of
\* the distance to 60, rounded to the nearest unit (it is never half-way)
RejectConfidence(score) == Min(90, 60 + ((10 * (60 - score) + 3) \div 6))

\* RecruiterBot.recommend_action
recommend_action(evaluation) ==
    IF evaluation.kind # "dict"
    THEN Decision("hold", 50, "Evaluation data was incomplete or unavailable.")
    ELSE LET got == ScoreOf(evaluation)
             score == got.value IN
         IF got.raises THEN DecisionRaises
         ELSE IF InterviewFrom(score)
         THEN Decision("interview", InterviewConfidence(score),
                       "Candidate meets core requirements with strong overall alignment.")
         ELSE IF score >= 60
         THEN Decision("hold", 60,
                       "Candidate shows potential but does not clearly meet all requirements.")
         ELSE Decision("reject", RejectConfidence(score),
                       "Candidate does not sufficiently meet the role requirements.")

\* the prompt of extract_candidate_name (its fixed rules shortened)
NamePrompt(resume_text) ==
    "\nExtract the candidate's full name from the resume text.\n\nResume:\n----\n"
    \o SubSeq(resume_text, 1, Min(NameCut, Len(resume_text)))
    \o "\n----\n"

\* the prompt of analyze_fit (its fixed rubric shortened)
EvalPrompt(resume_text, job_description) ==
    "SYSTEM: You must respond with STRICTLY VALID JSON. No markdown, no explanations, no extra text.\n\n"
    \o "\nYou are a strict recruiter evaluation engine.\n\nResume:\n----\n"
    \o resume_text
    \o "\n----\n\nJob Description:\n----\n"
    \o job_description
    \o "\n----\n"

\* the cache keys of the two dispatches of a request; both are made with
\* prefer="gemini" and no model_override
NameKey(resume_text) ==
    RouterKey(<<NamePrompt(resume_text), "recruiter_name", None, "gemini">>)
EvalKey(resume_text, job_description) ==
    RouterKey(<<EvalPrompt(resume_text, job_description), "recruiter_eval",
                None, "gemini">>)

\* A row of the table that init_db creates, its columns in the order of
\* CREATE TABLE.  Col(row, k) is row[k] of a SELECT *, counted from 0.  The
\* score is kept as the text of the number.
Col(row, k) == row[k + 1]
fingerprint_col == 11

\* evaluation.get("score") as the text of the value
ScoreCell(evaluation) ==
    IF evaluation.score_type = "int" THEN ToString(evaluation.score)
    ELSE IF evaluation.score_type = "str" THEN "eighty"
    ELSE None

\* the row that insert_candidate writes for the request with locals s,
\* under the id the table gives it
InsertedRow(id, s, evaluation, decision) ==
    <<id, s.candidate_name, s.resume_text, s.job_description,
      ScoreCell(evaluation), "[]", "[]", evaluation.rationale,
      decision.recommendation, ToString(decision.confidence),
      decision.reason, s.fingerprint, "utcnow">>

\* A lookup that finds no record.
LookupMisses(fingerprint) == 0

\* find_candidate_by_fingerprint: the id, or 0 for Python's None (the
\* caller tests `if existing_id`; ids start at 1)
find_candidate_by_fingerprint(fingerprint) ==
    IF \E row \in candidates : Col(row, fingerprint_col) = fingerprint
    THEN Col(CHOOSE row \in candidates :
                 Col(row, fingerprint_col) = fingerprint, 0)
    ELSE 0

\* get_candidate: the dict built from the row, or no dict at all
NoCandidate == [none |-> TRUE]
get_candidate(candidate_id) ==
    IF \E row \in candidates : Col(row, 0) = candidate_id
    THEN LET row == CHOOSE r \in candidates : Col(r, 0) = candidate_id IN
         [id |-> Col(row, 0),
          resume_text |-> Col(row, 1),
          job_description |-> Col(row, 2),
          score |-> Col(row, 3),
          pros |-> Col(row, 4),
          cons |-> Col(row, 5),
          rationale |-> Col(row, 6),
          recommendation |-> Col(row, 7),
          confidence |-> Col(row, 8),
          decision_reason |-> Col(row, 9),
          created_at |-> Col(row, 10)]
    ELSE NoCandidate

\* A table without the constraint on fingerprint.
UniqueUnchecked(rows, fingerprint) == FALSE

\* fingerprint TEXT UNIQUE: the INSERT raises IntegrityError
UniqueViolated(rows, fingerprint) ==
    \E row \in rows : Col(row, fingerprint_col) = fingerprint

\* A request thread outside screen_files; inside, the files still to do
\* (the current one first), the names of all files and of those that have
\* a result, the locals that are read again after a step, the text raw of
\* the evaluation dispatch, and the record of the current item: dispatches
\* made and how many of them returned the advisory string, analyze_fit
\* calls made, whether it ran with no other request or clear beside it.
IdleRequest ==
    [pc |-> "idle", files |-> << >>, input |-> << >>, results |-> << >>,
     resume_text |-> "", job_description |-> "",
     fingerprint |-> "", existing_id |-> 0, key |-> None,
     candidate_name |-> None, raw |-> None,
     dispatches |-> 0, advisories |-> 0, evals |-> 0, solo |-> TRUE]

Active(t) == req[t].pc # "idle"

\* items done and items that the running calls still hold
RECURSIVE Held(_)
Held(S) ==
    IF S = {} THEN 0
    ELSE LET t == CHOOSE x \in S : TRUE IN Len(req[t].files) + Held(S \ {t})
Started == Len(done) + Held(Threads)

\* parse_text_file for a file that exists: the stripped text of a .txt
\* file (a .pdf file has none here), or ValueError
parse_text_file(file) ==
    IF file.suffix = ".txt" THEN [raises |-> FALSE, text |-> Strip(file.text)]
    ELSE [raises |-> TRUE, text |-> ""]

\* A validation that accepts every text.
AnyText(value) == TRUE

\* validate_text_field accepts a text that is not empty after trimming
ValidText(value) == Strip(value) # ""

\* the requests in progress get company
Joined(r) ==
    [u \in Threads |->
        IF r[u].pc # "idle" THEN [r[u] EXCEPT !.solo = FALSE] ELSE r[u]]

\* what a request leaves in the history: its item's result, or that an
\* exception left screen_files; what a clear leaves: that it was made, and
\* the exception that left it
Entry(s, status, candidate_id, candidate_name, score, recommendation) ==
    [pair |-> <<s.resume_text, s.job_description>>, status |-> status,
     candidate_id |-> candidate_id, candidate_name |-> candidate_name,
     score |-> score, recommendation |-> recommendation,
     error |-> None, file |-> Head(s.files), fingerprint |-> s.fingerprint,
     input |-> s.input, results |-> Append(s.results, Head(s.files).name),
     dispatches |-> s.dispatches, evals |-> s.evals, solo |-> s.solo]
Raised(s, error) ==
    [Entry(s, "raised", 0, None, None, None) EXCEPT !.error = error,
                                                    !.results = s.results]
ClearEntry ==
    [pair |-> <<"", "">>, status |-> "cleared",
     candidate_id |-> 0, candidate_name |-> None,
     score |-> None, recommendation |-> None, error |-> None,
     file |-> File("", "", ""), fingerprint |-> "",
     input |-> << >>, results |-> << >>,
     dispatches |-> 0, evals |-> 0, solo |-> FALSE]

\* The item of the thread with locals s gets its result and the loop goes
\* on to the next file, or screen_files returns; or an exception leaves
\* screen_files, and the files not yet done with it.
Conclude(r, t, s, entry) ==
    /\ done' = Append(done, entry)
    /\ req' = [r EXCEPT ![t] =
                 IF entry.status = "raised" \/ Len(s.files) = 1
                 THEN IdleRequest
                 ELSE [IdleRequest EXCEPT !.pc = "next",
                                          !.files = Tail(s.files),
                                          !.input = s.input,
                                          !.results = entry.results,
                                          !.job_description = s.job_description]]
Finish(t, entry) == Conclude(req, t, req[t], entry)

\* The head of the loop for the thread with locals s: the file is parsed
\* and validated and gets the "invalid" result, or the fingerprint is made
\* and looked up.
LoopHead(r, t, s) ==
    LET parsed == parse_text_file(Head(s.files)) IN
    IF parsed.raises \/ ~ValidText(parsed.text)
    THEN Conclude(r, t, s, Entry(s, "invalid", 0, None, None, None))
    ELSE LET fp == make_fingerprint(parsed.text, s.job_description)
             id == find_candidate_by_fingerprint(fp) IN
         /\ req' = [r EXCEPT ![t] =
                      [s EXCEPT !.pc = IF id # 0 THEN "reuse" ELSE "name_check",
                                !.resume_text = parsed.text,
                                !.fingerprint = fp,
                                !.existing_id = id,
                                !.solo = \A u \in Threads \ {t} : ~Active(u)]]
         /\ done' = done

\* screen_files is called: the job description is validated, which raises
\* ValueError before the loop; then the head of the loop for the first
\* file
ScreenStartOf(t, calls, budget) ==
    /\ ~Active(t)
    /\ \E call \in calls :
        LET s == [IdleRequest EXCEPT
                     !.files = call.files,
                     !.input = [i \in DOMAIN call.files |-> call.files[i].name],
                     !.job_description = call.job_description] IN
        /\ Started + Len(call.files) <= budget
        /\ IF ValidText(call.job_description)
           THEN LoopHead(Joined(req), t, s)
           ELSE Conclude(req, t, s, Raised(s, "ValueError"))
    /\ UNCHANGED <<candidates, sqlite_sequence, locked, paid>>
    /\ UNCHANGED <<routerVars, hashVars, agentVars, safeVars>>

ScreenStart(t) == ScreenStartOf(t, ScreenCalls, MaxRequests)

\* the head of the loop for a file after the first
ScreenItem(t) ==
    /\ req[t].pc = "next"
    /\ LoopHead(req, t, req[t])
    /\ UNCHANGED <<candidates, sqlite_sequence, locked, paid>>
    /\ UNCHANGED <<routerVars, hashVars, agentVars, safeVars>>

\* if existing_id: candidate = get_candidate(existing_id); the "reused"
\* result is built from candidate.get(...), which raises when there is no
\* candidate
ScreenReuse(t) ==
    /\ req[t].pc = "reuse"
    /\ LET candidate == get_candidate(req[t].existing_id) IN
        IF candidate = NoCandidate
        THEN Finish(t, Raised(req[t], "AttributeError"))
        ELSE Finish(t, Entry(req[t], "reused", req[t].existing_id,
                             Get(candidate, "candidate_name", None),
                             Get(candidate, "score", None),
                             Get(candidate, "recommendation", None)))
    /\ UNCHANGED <<candidates, sqlite_sequence, locked, paid>>
    /\ UNCHANGED <<routerVars, hashVars, agentVars, safeVars>>

\* A loop body that goes from the name to the insert.
AfterNameInsert == "insert"

\* after candidate_name = name_data.get("name"): self.bot.analyze_fit(...)
AfterName == "eval_check"

\* extract_candidate_name: call_llm_router up to the end of its cache check
ScreenNameCheck(t) ==
    /\ req[t].pc = "name_check"
    /\ LET k == NameKey(req[t].resume_text)
           s == [req[t] EXCEPT !.key = k, !.dispatches = @ + 1] IN
        \/ req' = [req EXCEPT ![t] = [s EXCEPT !.pc = "name_live"]]
        \/ /\ Has(cache, k)
           /\ req' = [req EXCEPT ![t] =
                        [s EXCEPT !.pc = AfterName,
                                  !.candidate_name =
                                     extract_candidate_name(CacheRead(cache, k)).name]]
        \/ /\ ~Has(cache, k)
           /\ req' = [req EXCEPT ![t] = [s EXCEPT !.pc = "name_live"]]
    /\ UNCHANGED <<candidates, sqlite_sequence, locked, done, paid>>
    /\ UNCHANGED <<routerVars, hashVars, agentVars, safeVars>>

\* extract_candidate_name: the provider loop of call_llm_router and its
\* cache write (which may fail), or the advisory string; then the name is
\* taken from the text
ScreenNameLive(t) ==
    /\ req[t].pc = "name_live"
    /\ \/ \E r \in NameReplies :
            /\ cache' \in {cache, CacheWrite(cache, req[t].key, r)}
            /\ req' = [req EXCEPT ![t].pc = AfterName,
                                  ![t].candidate_name =
                                      extract_candidate_name(r).name]
       \/ /\ cache' = cache
          /\ req' = [req EXCEPT ![t].pc = AfterName,
                                ![t].advisories = @ + 1,
                                ![t].candidate_name =
                                    extract_candidate_name(overload_msg).name]
    /\ UNCHANGED <<candidates, sqlite_sequence, locked, done, paid>>
    /\ UNCHANGED <<bucket, th, config, dispatched, epochVars, audit,
                   liveDone, stored, hashVars, agentVars, safeVars>>

\* analyze_fit: call_llm_router up to the end of its cache check
ScreenEvalCheck(t) ==
    /\ req[t].pc = "eval_check"
    /\ LET k == EvalKey(req[t].resume_text, req[t].job_description)
           s == [req[t] EXCEPT !.key = k, !.dispatches = @ + 1,
                               !.evals = @ + 1] IN
        \/ req' = [req EXCEPT ![t] = [s EXCEPT !.pc = "eval_live"]]
        \/ /\ Has(cache, k)
           /\ req' = [req EXCEPT ![t] =
                        [s EXCEPT !.pc = "insert",
                                  !.raw = CacheRead(cache, k)]]
        \/ /\ ~Has(cache, k)
           /\ req' = [req EXCEPT ![t] = [s EXCEPT !.pc = "eval_live"]]
    /\ UNCHANGED <<candidates, sqlite_sequence, locked, done, paid>>
    /\ UNCHANGED <<routerVars, hashVars, agentVars, safeVars>>

\* analyze_fit: the provider loop of call_llm_router and its cache write
\* (which may fail), or the advisory string
ScreenEvalLive(t) ==
    /\ req[t].pc = "eval_live"
    /\ \/ \E r \in ScreenReplies :
            /\ cache' \in {cache, CacheWrite(cache, req[t].key, r)}
            /\ paid' = Put(paid, req[t].key, Get(paid, req[t].key, 0) + 1)
            /\ req' = [req EXCEPT ![t].pc = "insert", ![t].raw = r]
       \/ /\ cache' = cache
          /\ paid' = paid
          /\ req' = [req EXCEPT ![t].pc = "insert", ![t].advisories = @ + 1,
                                ![t].raw = overload_msg]
    /\ UNCHANGED <<candidates, sqlite_sequence, locked, done>>
    /\ UNCHANGED <<bucket, th, config, dispatched, epochVars, audit,
                   liveDone, stored, hashVars, agentVars, safeVars>>

\* insert_candidate and delete_all_candidates write. A connection that an
\* insert left open inside its transaction holds the write lock of the
\* file until the interpreter collects it: the write of another connection
\* then waits for the timeout and raises OperationalError, or the
\* connection has been collected by then and the write goes on.
LockOutcomes == IF locked THEN {"locked", "collected"} ELSE {"free"}

\* the evaluation is parsed, recommend_action decides, insert_candidate
\* writes the row and the "new" result is built; insert_candidate raises on
\* an evaluation that has no .get, on a database that is locked and on a
\* fingerprint that is in the table, and closes its connection only when
\* it did not raise
ScreenInsert(t) ==
    /\ req[t].pc = "insert"
    /\ LET evaluation == analyze_fit(req[t].raw)
           decision == recommend_action(evaluation)
           id == sqlite_sequence + 1 IN
        IF decision.raised
        THEN /\ Finish(t, Raised(req[t], "TypeError"))
             /\ UNCHANGED <<candidates, sqlite_sequence, locked>>
        ELSE IF evaluation.kind # "dict"
        THEN /\ Finish(t, Raised(req[t], "AttributeError"))
             /\ UNCHANGED <<candidates, sqlite_sequence, locked>>
        ELSE \E outcome \in LockOutcomes :
             IF outcome = "locked"
             THEN /\ Finish(t, Raised(req[t], "OperationalError"))
                  /\ UNCHANGED <<candidates, sqlite_sequence, locked>>
             ELSE IF UniqueViolated(candidates, req[t].fingerprint)
             THEN /\ Finish(t, Raised(req[t], "IntegrityError"))
                  /\ locked' = TRUE
                  /\ UNCHANGED <<candidates, sqlite_sequence>>
             ELSE /\ candidates' = candidates \cup
                        {InsertedRow(id, req[t], evaluation, decision)}
                  /\ sqlite_sequence' = id
                  /\ locked' = FALSE
                  /\ Finish(t, Entry(req[t], "new", id, req[t].candidate_name,
                                     ScoreCell(evaluation),
                                     decision.recommendation))
    /\ UNCHANGED paid
    /\ UNCHANGED <<routerVars, hashVars, agentVars, safeVars>>

\* clear_dashboard: delete_all_candidates empties the table and resets the
\* AUTOINCREMENT counter, or raises on a database that is locked
ClearWithin(budget) ==
    /\ Started < budget
    /\ \E outcome \in LockOutcomes :
        IF outcome = "locked"
        THEN /\ done' = Append(done, [ClearEntry EXCEPT !.error = "OperationalError"])
             /\ UNCHANGED <<candidates, sqlite_sequence, locked>>
        ELSE /\ candidates' = {}
             /\ sqlite_sequence' = 0
             /\ locked' = FALSE
             /\ done' = Append(done, ClearEntry)
    /\ req' = Joined(req)
    /\ UNCHANGED paid
    /\ UNCHANGED <<routerVars, hashVars, agentVars, safeVars>>

ClearDashboard == ClearWithin(MaxRequests)

\* The store under writes that follow one another: calls with one pair of
\* texts, and one request or clear more than the pipeline is given.
StoreCalls == {Call(<<File("ab.txt", ".txt", "ab")>>, "c")}
StoreEvents == MaxRequests + 1
StoreStart(t) == ScreenStartOf(t, StoreCalls, StoreEvents)
StoreClear == ClearWithin(StoreEvents)

(* ------------------------ the agent's functions ------------------------ *)
\* How far below 0 and above 100 the scores of the decision step reach.
ScoreMargin == 5

Scores == (0 - ScoreMargin)..(100 + ScoreMargin)

\* What recommend_action may be handed: a dict with an integer score, a
\* dict without score, with a null score, with a string as score; and what
\* is not a dict: None, a list, a number, a string.
DictEvaluation(score_type, score) ==
    JsonObject(IF score_type = "missing" THEN EvaluationKeys \ {"score"} ELSE EvaluationKeys,
               None, "missing", 0, score_type, score, "fine")
Evaluations ==
    {DictEvaluation("int", n) : n \in Scores}
    \cup {DictEvaluation(x, 0) : x \in {"missing", "null", "str"}}
    \cup {[kind |-> k] : k \in {"none", "list", "number", "string"}}

\* The texts the two parsing steps are applied to: every reply above and
\* the advisory string.
AgentTexts ==
    {ObjectReply, ListReply, NullReply, NumberReply, EmptyObjectReply,
     WrappedReply, TrailingBraceReply, BracesReply, PlainReply,
     HighScoreReply, NullScoreReply, LowConfidenceReply, LongNameReply,
     NullNameReply, NoConfidenceReply, TextConfidenceReply, PaddedNameReply,
     overload_msg}
TextArg(raw) == [kind |-> "text", raw |-> raw]

NoCall == [fn |-> None, arg |-> None]
NoResult == [pending |-> TRUE]

\* evaluation = self.bot.analyze_fit(resume_text, job_description), from
\* the text its dispatch returned
AnalyzeFit ==
    /\ agentIn.fn = "analyze_fit"
    /\ agentOut = NoResult
    /\ agentOut' = analyze_fit(agentIn.arg.raw)
    /\ UNCHANGED <<agentIn, routerVars, hashVars, screenVars, safeVars>>

\* name_data = extract_candidate_name(resume_text), from the text its
\* dispatch returned
ExtractName ==
    /\ agentIn.fn = "extract_candidate_name"
    /\ agentOut = NoResult
    /\ agentOut' = extract_candidate_name(agentIn.arg.raw)
    /\ UNCHANGED <<agentIn, routerVars, hashVars, screenVars, safeVars>>

\* decision = self.bot.recommend_action(evaluation)
Recommend ==
    /\ agentIn.fn = "recommend_action"
    /\ agentOut = NoResult
    /\ agentOut' = recommend_action(agentIn.arg)
    /\ UNCHANGED <<agentIn, routerVars, hashVars, screenVars, safeVars>>

(* -------------------------- specifications ----------------------------- *)
InitCommon ==
    /\ bucket = BucketInit
    /\ th = [t \in Threads |-> IdleThread]
    /\ cache = EmptyDict
    /\ dispatched = 0
    /\ epochAvail = capacity
    /\ epochSpent = 0
    /\ excess = 0
    /\ audit = NoAudit
    /\ liveDone = EmptyDict
    /\ stored = {}

\* Nothing is being hashed.
InitStore ==
    /\ candidates = {}
    /\ sqlite_sequence = 0
    /\ locked = FALSE
    /\ req = [t \in Threads |-> IdleRequest]
    /\ done = << >>
    /\ paid = EmptyDict

InitService ==
    /\ hashIn = NoHash
    /\ hashOut = << >>
    /\ InitStore
    /\ agentIn = NoCall
    /\ agentOut = NoResult
    /\ safe = [t \in Threads |-> IdleSafe]

AllPresent == [gemini_key |-> TRUE, genai_sdk |-> TRUE,
               groq_key |-> TRUE, groq_sdk |-> TRUE]

\* The gateway: any set of credentials and SDKs may be present.
Init ==
    /\ InitCommon
    /\ config \in Configs
    /\ InitService

Next ==
    \/ \E t \in Threads : DispatchSimulated(t)
    \/ \E t \in Threads : Dispatch(t)
    \/ \E t \in Threads : ProviderCall(t)
    \/ \E t \in Threads : ReturnResult(t)
    \/ \E t \in Threads : ReturnOverload(t)
    \/ \E t \in Threads : Reset(t)

Spec == Init /\ [][Next]_vars

\* call_llm_safe: threads call it with any retry count; the steps of the
\* dispatch between its start and its end are those of the gateway.
InitSafe ==
    /\ InitCommon
    /\ config = AllPresent
    /\ InitService

NextSafe ==
    \/ \E t \in Threads : SafeCall(t)
    \/ \E t \in Threads : SafeAttempt(t)
    \/ \E t \in Threads : ProviderCall(t)
    \/ \E t \in Threads : ReturnResult(t)
    \/ \E t \in Threads : ReturnOverload(t)
    \/ \E t \in Threads : SafeSettle(t)

SpecSafe == InitSafe /\ [][NextSafe]_vars

\* The TokenBucket on its own: threads call consume with any of Costs.
InitBucket ==
    /\ InitCommon
    /\ config = AllPresent
    /\ InitService

NextBucket ==
    \/ \E t \in Threads : BucketCall(t)
    \/ \E t \in Threads : ConsumeAcquire(t)
    \/ \E t \in Threads : ConsumeRefill(t)
    \/ \E t \in Threads : ConsumeCheck(t)
    \/ \E t \in Threads : ConsumeSubtract(t)
    \/ \E t \in Threads : BucketReturn(t)

SpecBucket == InitBucket /\ [][NextBucket]_vars

\* The hashing functions on their own: two calls with any arguments.
InitHash ==
    /\ InitCommon
    /\ config = AllPresent
    /\ hashIn \in HashCalls
    /\ hashOut = << >>
    /\ InitStore
    /\ agentIn = NoCall
    /\ agentOut = NoResult
    /\ safe = [t \in Threads |-> IdleSafe]

NextHash ==
    \/ HashKeys
    \/ HashFingerprints

SpecHash == InitHash /\ [][NextHash]_vars

\* The screening pipeline over a store that init_db has just created, the
\* cache empty: request threads run screen_files, the dashboard is cleared.
InitScreen ==
    /\ InitCommon
    /\ config = AllPresent
    /\ InitService

NextScreen ==
    \/ \E t \in Threads : ScreenStart(t)
    \/ \E t \in Threads : ScreenItem(t)
    \/ \E t \in Threads : ScreenReuse(t)
    \/ \E t \in Threads : ScreenNameCheck(t)
    \/ \E t \in Threads : ScreenNameLive(t)
    \/ \E t \in Threads : ScreenEvalCheck(t)
    \/ \E t \in Threads : ScreenEvalLive(t)
    \/ \E t \in Threads : ScreenInsert(t)
    \/ ClearDashboard

SpecScreen == InitScreen /\ [][NextScreen]_vars

\* The store: the same pipeline over fewer calls, for longer.
NextStore ==
    \/ \E t \in Threads : StoreStart(t)
    \/ \E t \in Threads : ScreenReuse(t)
    \/ \E t \in Threads : ScreenNameCheck(t)
    \/ \E t \in Threads : ScreenNameLive(t)
    \/ \E t \in Threads : ScreenEvalCheck(t)
    \/ \E t \in Threads : ScreenEvalLive(t)
    \/ \E t \in Threads : ScreenInsert(t)
    \/ StoreClear

SpecStore == InitScreen /\ [][NextStore]_vars

\* The functions of the agent on their own: one call with any argument.
AgentCalls ==
    [fn : {"recommend_action"}, arg : Evaluations]
    \cup [fn : {"analyze_fit", "extract_candidate_name"},
          arg : {TextArg(raw) : raw \in AgentTexts}]

InitAgent ==
    /\ InitCommon
    /\ config = AllPresent
    /\ hashIn = NoHash
    /\ hashOut = << >>
    /\ InitStore
    /\ agentIn \in AgentCalls
    /\ agentOut = NoResult
    /\ safe = [t \in Threads |-> IdleSafe]

NextAgent ==
    \/ Recommend
    \/ AnalyzeFit
    \/ ExtractName

SpecAgent == InitAgent /\ [][NextAgent]_vars

(* ------------------------------ claims --------------------------------- *)
InCritical(t) == th[t].pc \in {"c_refill", "c_check", "c_sub"}

\* thread t makes the first step of a non-simulated dispatch
LiveStart(t) == th[t].pc = "idle" /\ th'[t].key # None

\* thread t makes a simulated dispatch
SimStart(t) == th[t].pc = "idle" /\ th'[t].sim

SimTexts == {simulated_response(p, c) : p \in SimPrompts, c \in SimCategories}

AllFailed(s) ==
    /\ Len(s.calls) = 2
    /\ \A i \in 1..2 : s.calls[i].outcome # "ok"

\* C1 as stated: call_llm_router never raises.  No dispatch is ever left by
\* an exception (pc "raised"); a dispatch makes at most two provider calls
\* before it returns or caches; and what it returns is a text: a simulated
\* text, a provider's text, or the advisory string.
C1_NeverRaises ==
    \A t \in Threads :
        /\ th[t].pc # "raised"
        /\ Len(th[t].calls) <= 2
        /\ th[t].pc = "provider" => th[t].idx = Len(th[t].calls) + 1
        /\ th[t].pc = "returned" =>
             th[t].ret \in SimTexts \cup Replies \cup {overload_msg}

\* C2 as stated: a dispatch that starts after a live dispatch with the same
\* (prompt, category, model) has returned a provider's text is a cache hit,
\* invokes no provider and returns that same text.
C2_SecondDispatchHits ==
    [][\A t \in Threads :
         (LiveStart(t) /\ Has(liveDone, th'[t].key)) =>
            /\ th'[t].hit
            /\ th'[t].pc = "returned"
            /\ th'[t].calls = << >>
            /\ liveDone[th'[t].key] = {th'[t].ret}]_vars

\* C2, amended: a dispatch that starts after a dispatch with the same
\* (prompt, category, model) has completed its cache write, and whose own
\* cache read does not fail, is a cache hit: it invokes no provider, takes no
\* token, and returns a text that a live dispatch for that key returned.
C2_StoredThenHit ==
    [][\A t \in Threads :
         (LiveStart(t) /\ th'[t].key \in stored /\ ~th'[t].readFailed) =>
            /\ th'[t].hit
            /\ th'[t].pc = "returned"
            /\ th'[t].calls = << >>
            /\ th'[t].ret \in liveDone[th'[t].key]
            /\ bucket' = bucket]_vars

\* A second dispatch has returned from the cache what the first one stored.
C2_Witness ==
    \E t \in Threads :
        /\ th[t].pc = "returned"
        /\ th[t].hit
        /\ th[t].key \in stored
        /\ liveDone[th[t].key] = {th[t].ret}
        /\ dispatched = 2

\* C3 as stated: once a key holds a value, no step of any dispatch replaces
\* it with a different value.
C3_EntryNeverReplaced ==
    [][\A k \in DOMAIN cache :
         /\ k \in DOMAIN cache'
         /\ cache'[k] = cache[k]]_vars

\* C4 as stated: a non-simulated dispatch whose key is present in the cache
\* returns the cached text, invokes no provider, leaves the bucket and the
\* cache as they are.
C4_PresentKeyReturned ==
    [][\A t \in Threads :
         (LiveStart(t) /\ Has(cache, th'[t].key)) =>
            /\ th'[t].pc = "returned"
            /\ th'[t].ret = cache[th'[t].key]
            /\ th'[t].calls = << >>
            /\ bucket' = bucket
            /\ cache' = cache]_vars

\* C4, amended: a non-simulated dispatch whose key is present in the cache
\* and whose cache read does not fail returns the cached text, invokes no
\* provider, leaves the bucket and the cache as they are.
C4_HitFrame ==
    [][\A t \in Threads :
         (LiveStart(t) /\ Has(cache, th'[t].key) /\ ~th'[t].readFailed) =>
            /\ th'[t].pc = "returned"
            /\ th'[t].ret = cache[th'[t].key]
            /\ th'[t].calls = << >>
            /\ bucket' = bucket
            /\ cache' = cache]_vars

\* A dispatch has returned a cached text while the bucket was not full.
C4_Witness ==
    \E t \in Threads :
        /\ th[t].pc = "returned"
        /\ th[t].hit
        /\ th[t].ret = cache[th[t].key]
        /\ bucket.tokens < capacity

\* C5: a simulated dispatch leaves the cache, the bucket and the history of
\* provider calls as they are and invokes no provider, and its text is a
\* function of (prompt, category): equal arguments give equal texts, and
\* outside "summarize" the text does not depend on the prompt.
C5_SimulationPure ==
    [][\A t \in Threads : SimStart(t) =>
         /\ cache' = cache
         /\ bucket' = bucket
         /\ liveDone' = liveDone
         /\ th'[t].pc = "returned"
         /\ th'[t].calls = << >>
         /\ th'[t].ret \in SimTexts
         /\ \A u \in Threads :
              (th'[u].sim /\ th'[u].category = th'[t].category
                 /\ (th'[u].prompt = th'[t].prompt
                       \/ th'[t].category # "summarize"))
              => th'[u].ret = th'[t].ret]_vars

\* A simulated dispatch of a long prompt to be summarized has returned
\* while a live dispatch had left an entry in the cache and the bucket not
\* full.
C5_Witness ==
    \E t \in Threads :
        /\ th[t].pc = "returned"
        /\ th[t].sim
        /\ th[t].category = "summarize"
        /\ Len(th[t].prompt) > SummaryCut
        /\ Len(th[t].ret) = Len("SIMULATED SUMMARY: ") + SummaryCut + 1
        /\ cache # EmptyDict
        /\ bucket.tokens < capacity

\* C6: the providers a dispatch has invoked are a prefix of <<preferred,
\* other>>, each at most once, only the last of them can have succeeded, a
\* dispatch that returns without a cache hit has invoked at least one, and
\* a dispatch in which a provider succeeded returns that provider's text.
C6_ProviderOrder ==
    \A t \in Threads :
        (th[t].key # None) =>
            LET order == IF th[t].prefer = "groq"
                         THEN <<"groq", "gemini">>
                         ELSE <<"gemini", "groq">>
                n == Len(th[t].calls) IN
            /\ n <= 2
            /\ \A i \in 1..n : th[t].calls[i].provider = order[i]
            /\ \A i \in 1..n : i < n => th[t].calls[i].outcome # "ok"
            /\ (th[t].pc = "returned" /\ ~th[t].hit) => n >= 1
            /\ (th[t].pc = "returned" /\ n >= 1
                  /\ th[t].calls[n].outcome = "ok")
               => th[t].ret = th[t].calls[n].text

\* A dispatch that prefers Groq has returned the text of Gemini, invoked
\* second, after Groq was refused by the bucket.
C6_Witness ==
    \E t \in Threads :
        /\ th[t].pc = "returned"
        /\ th[t].prefer = "groq"
        /\ Len(th[t].calls) = 2
        /\ th[t].calls[1] = [provider |-> "groq", outcome |-> "rate_limited",
                             text |-> None]
        /\ th[t].calls[2].provider = "gemini"
        /\ th[t].calls[2].outcome = "ok"
        /\ th[t].ret = th[t].calls[2].text

\* C7: a dispatch in which both providers failed, for whatever reasons, is
\* not left by an exception, holds no result, and returns the advisory
\* string.
C7_AllFailAdvisory ==
    \A t \in Threads :
        AllFailed(th[t]) =>
            /\ th[t].pc \in {"finish", "returned"}
            /\ th[t].result = None
            /\ th[t].pc = "returned" => th[t].ret = overload_msg

\* Two dispatches have returned the advisory string: in one both SDK calls
\* raised, in the other the bucket refused both providers.
C7_Witness ==
    \E t, u \in Threads :
        /\ th[t].pc = "returned" /\ th[t].ret = overload_msg
        /\ th[u].pc = "returned" /\ th[u].ret = overload_msg
        /\ \A i \in 1..2 : th[t].calls[i].outcome = "sdk_error"
        /\ \A i \in 1..2 : th[u].calls[i].outcome = "rate_limited"

\* C8 as stated: in every reachable state of the TokenBucket
\* 0 <= tokens <= capacity.
C8_TokensWithinCapacity ==
    /\ 0 <= bucket.tokens
    /\ bucket.tokens <= capacity

\* C9: consume is one critical section: no two threads are between its
\* refill and its subtraction at once, and the cost admitted since the
\* clock last moved never exceeds the tokens the bucket held then (none is
\* admitted if it held less than none), so k tokens admit at most floor(k)
\* calls of cost 1.
C9_ConsumeAtomic ==
    /\ \A t, u \in Threads : (InCritical(t) /\ InCritical(u)) => t = u
    /\ epochSpent <= (IF epochAvail > 0 THEN epochAvail ELSE 0)
    /\ \A t \in Threads :
         th[t].pc \notin {"c_refill", "c_check", "c_sub"}
            => bucket.tokens = epochAvail - epochSpent

\* With no time passed, one-token calls have used up the bucket's whole
\* tokens and the next one was refused, while the other thread waits for
\* the lock.
C9_Witness ==
    /\ audit.done
    /\ ~audit.admit
    /\ audit.elapsed = 0
    /\ audit.cost = OneToken
    /\ epochSpent > 0
    /\ epochAvail - epochSpent < OneToken
    /\ \E t \in Threads : th[t].pc = "c_lock"

\* C10 as stated: a completed consume(cost) that found `pre` tokens and read
\* `elapsed` answered true iff min(capacity, pre + elapsed * rate) >= cost,
\* left that amount less the cost if it answered true and that amount if
\* not; a cost above the refilled amount is refused; a cost of capacity
\* after capacity / rate of elapsed time is admitted.
C10_ConsumeContract ==
    audit.done =>
        LET refilled == Min(capacity, audit.pre + audit.elapsed * rate) IN
        /\ audit.admit <=> (refilled >= audit.cost)
        /\ audit.post = IF audit.admit THEN refilled - audit.cost
                        ELSE refilled
        /\ bucket.tokens = audit.post
        /\ audit.cost > refilled => ~audit.admit
        /\ (audit.cost = capacity /\ audit.elapsed * rate >= capacity)
           => audit.admit
\* the call that thread t's step appends to its record of provider calls
NewCall(t) == th'[t].calls[Len(th'[t].calls)]

\* thread t makes a turn of the provider loop
ProviderTurn(t) ==
    th[t].pc = "provider" /\ Len(th'[t].calls) = Len(th[t].calls) + 1

\* C11: a provider goes to the network (its call ends with a text or with an
\* SDK error) only in an invocation whose own bucket.consume() was admitted:
\* the bucket held a token after the refill and that token is taken.  An
\* invocation whose consume is refused ends at once with the rate-limit
\* error: it takes no token, produces no text, and the router is already at
\* the next provider or past the loop.  An invocation that fails on its key
\* or SDK check does not touch the bucket.
C11_NetworkOnlyAfterConsume ==
    [][\A t \in Threads : ProviderTurn(t) =>
         LET o == NewCall(t).outcome IN
         /\ o \in {"ok", "sdk_error"} =>
               \E e \in GatewayElapsed :
                 /\ Admits(Refilled(bucket.tokens, e), OneToken)
                 /\ bucket'.tokens = Refilled(bucket.tokens, e) - OneToken
         /\ o = "rate_limited" =>
               /\ \E e \in GatewayElapsed :
                    /\ ~Admits(Refilled(bucket.tokens, e), OneToken)
                    /\ bucket'.tokens = Refilled(bucket.tokens, e)
               /\ NewCall(t).text = None
               /\ th'[t].result = None
               /\ th'[t].pc \in {"provider", "finish"}
               /\ th'[t].idx = th[t].idx + 1
         /\ o \in {"no_key", "no_sdk"} => bucket' = bucket
         /\ o \in {"ok", "sdk_error", "rate_limited", "no_key", "no_sdk"}]_vars

\* one dispatch was refused by the bucket after an SDK call of its own, while
\* the other holds the text of a provider
C11_Witness ==
    \E t, u \in Threads :
        /\ Len(th[t].calls) = 2
        /\ th[t].calls[1].outcome = "sdk_error"
        /\ th[t].calls[2].outcome = "rate_limited"
        /\ Len(th[u].calls) = 1
        /\ th[u].calls[1].outcome = "ok"
        /\ bucket.tokens < OneToken

\* the state of a dispatch after a cache check that did not find its key
AfterMiss(s) ==
    /\ s.pc = "provider"
    /\ s.idx = 1
    /\ s.calls = << >>
    /\ ~s.hit
    /\ s.result = None
    /\ s.ret = None

\* C12: cache failures are not fatal.  A dispatch whose cache check raises
\* is where a dispatch with the same arguments is after a miss: at the first
\* provider of its sequence, nothing read, nothing returned, cache and
\* bucket untouched.  A dispatch that got a text from a provider returns
\* that text whether its cache write completes or fails, and whatever the
\* failed write left in the file.
C12_CacheFailuresNonFatal ==
    [][\A t \in Threads :
         /\ (LiveStart(t) /\ th'[t].readFailed) =>
               /\ AfterMiss(th'[t])
               /\ CurrentProvider(th'[t]) = providers_sequence(th'[t].prefer)[1]
               /\ cache' = cache
               /\ bucket' = bucket
         /\ (th[t].pc = "finish" /\ th[t].result # None) =>
               /\ th'[t].pc \in {"finish", "returned"}
               /\ th'[t].pc = "returned" =>
                     /\ th'[t].ret = th[t].result
                     /\ th'[t].ret = th[t].calls[Len(th[t].calls)].text
                     /\ th'[t].ret \in Replies]_vars

\* a dispatch whose cache check raised has returned the text of its
\* provider although its cache write failed and left no entry
C12_Witness ==
    \E t \in Threads :
        /\ th[t].pc = "returned"
        /\ th[t].readFailed
        /\ th[t].ret \in Replies
        /\ th[t].key \notin stored
        /\ ~Has(cache, th[t].key)

KeysHashed == hashIn.fn = "_cache_key" /\ hashOut # << >>

FingerprintsHashed == hashIn.fn = "make_fingerprint" /\ hashOut # << >>

\* the (effective model, category) pair of key arguments a
ModelCategory(a) == <<cache_model(a[3], a[4]), a[2]>>

\* C13 as stated: for one prompt, two dispatches whose (effective model,
\* category) pairs differ hash different strings, so they use different
\* cache entries.
C13_PairsKeyedApart ==
    (/\ KeysHashed
     /\ hashIn.a[1] = hashIn.b[1]
     /\ ModelCategory(hashIn.a) # ModelCategory(hashIn.b))
        => hashOut[1] # hashOut[2]

\* C19: make_fingerprint gives the same value for the same pair, and for one
\* resume and two different job descriptions it hashes different strings.
C19_FingerprintOfJob ==
    FingerprintsHashed =>
        /\ hashIn.a = hashIn.b => hashOut[1] = hashOut[2]
        /\ (hashIn.a[1] = hashIn.b[1] /\ hashIn.a[2] # hashIn.b[2])
              => hashOut[1] # hashOut[2]

\* one resume was fingerprinted with two job descriptions of which one is
\* the end of the other
C19_Witness ==
    /\ FingerprintsHashed
    /\ hashIn.a = <<"ab", "c">>
    /\ hashIn.b = <<"ab", "bc">>

\* C20 as stated: two pairs that differ in either text hash different
\* strings.
C20_FingerprintInjective ==
    (FingerprintsHashed /\ hashIn.a # hashIn.b) => hashOut[1] # hashOut[2]

\* the text is empty after trimming
Blank(value) == Strip(value) = ""

\* the last entry of the history after a step
Finished == done'[Len(done')]

\* thread t's step ends its item with a lookup or an insert behind it
Ends(t) ==
    /\ req[t].pc \in {"reuse", "insert"}
    /\ req'[t].pc \in {"idle", "next"}

\* C14 as stated: of two requests for one pair that run one after the other,
\* with nothing beside or between them, on a store that did not hold the
\* pair, the first ends "new" and the second "reused"; the second makes no
\* dispatch, analyze_fit is called once in all, and one record exists
\* afterwards.
C14_NewThenReused ==
    (/\ Len(done) = 2
     /\ \A t \in Threads : ~Active(t)
     /\ done[1].solo /\ done[2].solo
     /\ done[1].pair = done[2].pair
     /\ ~Blank(done[1].pair[1]) /\ ~Blank(done[1].pair[2]))
        => /\ done[1].status = "new"
           /\ done[2].status = "reused"
           /\ done[2].dispatches = 0
           /\ done[1].evals + done[2].evals = 1
           /\ Cardinality(candidates) = 1

\* C15 as stated: a "reused" result has the id, the candidate name, the
\* score and the recommendation of the row stored under the request's
\* fingerprint.
C15_ReusedCarriesRecord ==
    [][\A t \in Threads :
         (Ends(t) /\ Finished.status = "reused") =>
            \E row \in candidates :
                /\ Col(row, fingerprint_col) = req[t].fingerprint
                /\ Finished.candidate_id = Col(row, 0)
                /\ Finished.candidate_name = Col(row, 1)
                /\ Finished.score = Col(row, 4)
                /\ Finished.recommendation = Col(row, 8)]_vars

\* C16: the table never holds two rows with one fingerprint.
C16_OneRecordPerFingerprint ==
    \A r1, r2 \in candidates :
        Col(r1, fingerprint_col) = Col(r2, fingerprint_col) => r1 = r2

\* two requests for one fingerprint ran side by side; one inserted its row,
\* the INSERT of the other was refused
C16_Witness ==
    /\ Len(done) = 2
    /\ done[1].status = "new"
    /\ done[2].error = "IntegrityError"
    /\ Cardinality(candidates) = 1

\* C17 as stated: a request whose INSERT meets its fingerprint in the table
\* (it passed the lookup before the other request inserted) ends with a
\* "reused" result for the row that is there; no exception leaves
\* screen_files.
C17_ConcurrentDuplicateReused ==
    [][\A t \in Threads :
         (/\ Ends(t)
          /\ req[t].pc = "insert"
          /\ analyze_fit(req[t].raw).kind = "dict"
          /\ UniqueViolated(candidates, req[t].fingerprint)) =>
            /\ Finished.status = "reused"
            /\ Finished.candidate_id =
                  find_candidate_by_fingerprint(req[t].fingerprint)]_vars

\* C18 as stated: the evaluation prompt of a pair is answered by a live
\* provider at most once.
C18_EvaluationPaidOnce ==
    \A k \in DOMAIN paid : paid[k] <= 1

\* recommend_action was called with a dict that holds the integer score n
Decided(n) ==
    /\ agentIn.fn = "recommend_action"
    /\ agentOut # NoResult
    /\ agentIn.arg.kind = "dict"
    /\ agentIn.arg.score_type = "int"
    /\ agentIn.arg.score = n

\* C21: recommend_action gives every integer score one recommendation:
\* interview exactly for score >= 75, hold exactly for 60 <= score < 75,
\* reject exactly for score < 60; so 75 is interview, 74 and 60 are hold, 59
\* is reject.
C21_ScoreBands ==
    \A n \in Scores : Decided(n) =>
        /\ ~agentOut.raised
        /\ agentOut.recommendation \in {"interview", "hold", "reject"}
        /\ agentOut.recommendation = "interview" <=> n >= 75
        /\ agentOut.recommendation = "hold" <=> (60 <= n /\ n < 75)
        /\ agentOut.recommendation = "reject" <=> n < 60

\* the decision at the lower edge of the interview band
C21_Witness == Decided(75) /\ agentOut.recommendation = "interview"

Abs(x) == IF x < 0 THEN 0 - x ELSE x

\* the integer nearest to num / den
Nearest(num, den) ==
    CHOOSE r \in 0..(num + 1) : 2 * Abs(den * r - num) <= den

\* the confidence recommend_action gives the integer score n
ConfidenceAt(n) == recommend_action(DictEvaluation("int", n)).confidence

\* C22: for every integer score in 0..100 the confidence, in hundredths, is
\* min(95, 80 + 2*(score-75)) for interview, 60 for hold, and for reject
\* min(90, 60 + the hundredths nearest to (60-score)/60); it is 80 at score
\* 75, lies between 0 and 100, does not fall as the score rises within the
\* interview band and does not fall as the score falls within the reject
\* band.
C22_Confidence ==
    \A n \in 0..100 : Decided(n) =>
        LET c == agentOut.confidence IN
        /\ n >= 75 => c = Min(95, 80 + 2 * (n - 75))
        /\ (60 <= n /\ n < 75) => c = 60
        /\ n < 60 => c = Min(90, 60 + Nearest(100 * (60 - n), 60))
        /\ n = 75 => c = 80
        /\ 0 <= c /\ c <= 100
        /\ (75 <= n /\ n < 100) => c <= ConfidenceAt(n + 1)
        /\ (0 < n /\ n < 60) => c <= ConfidenceAt(n - 1)

\* the decision at the score where the cap of the interview band sets in
C22_Witness == Decided(83) /\ agentOut.confidence = 95

\* the call fn of the agent has returned
Returned(fn) == agentIn.fn = fn /\ agentOut # NoResult

\* C23 as stated: whatever text the dispatch returned, analyze_fit returns
\* a record that has the fields score, pros, cons and rationale.
C23_AlwaysStructured ==
    Returned("analyze_fit") =>
        /\ agentOut.kind = "dict"
        /\ EvaluationKeys \subseteq agentOut.keys

\* C24 as stated: for a JSON object with prose before and after it, also
\* when the prose after it holds a brace, analyze_fit returns that object
\* and not the zero-score fallback.
C24_ObjectRecovered ==
    (Returned("analyze_fit") /\ agentIn.arg.raw \in {WrappedReply, TrailingBraceReply})
        => (agentOut = json_loads(ObjectReply) /\ agentOut # FallbackEvaluation)

\* C25 as stated: recommend_action never raises; what is not a record gets
\* hold with confidence 0.5 and the incomplete-data reason, and a record
\* whose score is missing, null or not a number still gets a decision.
C25_DecisionNeverRaises ==
    Returned("recommend_action") =>
        /\ ~agentOut.raised
        /\ agentOut.recommendation \in {"interview", "hold", "reject"}
        /\ agentIn.arg.kind # "dict" =>
              agentOut = Decision("hold", 50, "Evaluation data was incomplete or unavailable.")

\* the reply is an object with a non-empty name of at most four tokens and
\* a confidence of at least 0.85
NameAccepted(raw) ==
    LET data == json_loads(raw) IN
    /\ data.kind = "dict"
    /\ data.name # None /\ data.name # ""
    /\ data.confidence_type = "float" /\ data.confidence >= 85
    /\ Words(data.name, 1, FALSE) <= 4

\* C28 as stated: extract_candidate_name returns a name exactly for an
\* accepted reply, and name null with confidence 0 for every other reply.
C28_NameOrZero ==
    Returned("extract_candidate_name") =>
        /\ agentOut.name # None <=> NameAccepted(agentIn.arg.raw)
        /\ ~NameAccepted(agentIn.arg.raw) => agentOut = NameResult(None, 0)

\* C26 as stated: for a valid job description no exception leaves
\* screen_files, whatever happens to an item, and the results are those of
\* the input files in input order.
C26_OneResultPerFile ==
    \A i \in DOMAIN done :
        (done[i].status # "cleared" /\ ~Blank(done[i].pair[2])) =>
            /\ done[i].status # "raised"
            /\ done[i].results = SubSeq(done[i].input, 1, Len(done[i].results))

\* C27 as stated: an item whose two dispatches returned the advisory string
\* and whose fingerprint is not in the table ends "new" with a row, and the
\* rationale of the row is the advisory string.
C27_OutageRecord ==
    [][\A t \in Threads :
         (/\ Ends(t)
          /\ req[t].pc = "insert"
          /\ req[t].advisories = 2
          /\ ~UniqueViolated(candidates, req[t].fingerprint)) =>
            /\ Finished.status = "new"
            /\ \E row \in candidates' :
                /\ Col(row, 0) = Finished.candidate_id
                /\ Col(row, fingerprint_col) = req[t].fingerprint
                /\ Col(row, 7) = overload_msg]_vars

\* the texts of the integers from 0 to 100
Percent == {ToString(n) : n \in 0..100}

\* C29 as stated: every row of the table has an integer score from 0 to
\* 100, one of the three recommendations, a confidence from 0 to 1 and a
\* fingerprint.
C29_RecordsInRange ==
    \A row \in candidates :
        /\ Col(row, 4) \in Percent
        /\ Col(row, 8) \in {"interview", "hold", "reject"}
        /\ Col(row, 9) \in Percent
        /\ Col(row, fingerprint_col) # None

\* C30: a file whose text is empty after trimming gets the "invalid"
\* result with no dispatch, no fingerprint to look up and no row written;
\* a job description that is empty after trimming is rejected with no
\* result and no file processed.
C30_ValidatedFirst ==
    [][Len(done') = Len(done) + 1 =>
         /\ (/\ Finished.status # "cleared"
             /\ ~Blank(Finished.pair[2])
             /\ Blank(Finished.file.text)) =>
                /\ Finished.status = "invalid"
                /\ Finished.dispatches = 0 /\ Finished.evals = 0
                /\ Finished.fingerprint = ""
                /\ candidates' = candidates /\ cache' = cache
         /\ (/\ Finished.status # "cleared"
             /\ Blank(Finished.pair[2])) =>
                /\ Finished.error = "ValueError"
                /\ Finished.results = << >>
                /\ Finished.dispatches = 0 /\ Finished.evals = 0
                /\ Finished.fingerprint = ""
                /\ candidates' = candidates /\ cache' = cache]_vars

\* the blank second file of a call got its "invalid" result after the first
\* file had got its own
C30_Witness ==
    \E i \in DOMAIN done :
        /\ done[i].status = "invalid"
        /\ Blank(done[i].file.text)
        /\ Len(done[i].results) = 2

\* C31: call_llm_safe makes no more than retries + 1 attempts, every
\* attempt but the last one made has raised, a call that has returned after
\* an attempt with a text returns that text, and it returns the fixed
\* string exactly when retries + 1 attempts were made and all have raised.
C31_BoundedRetry ==
    \A t \in Threads :
        LET s == safe[t]
            n == Len(s.log) IN
        /\ s.attempts <= s.retries + 1
        /\ n <= s.attempts
        /\ \A i \in 1..(n - 1) : s.log[i] = "raised"
        /\ s.pc = "done" =>
              /\ n = s.attempts
              /\ s.log[n] # "raised" => s.ret = s.log[n]
              /\ s.ret = unavailable_msg <=>
                    (n = s.retries + 1 /\ \A i \in 1..n : s.log[i] = "raised")

\* a call with retries=1 returned the fixed string after two attempts
\* that raised
C31_Witness ==
    \E t \in Threads :
        /\ safe[t].pc = "done"
        /\ safe[t].retries = 1
        /\ safe[t].log = <<"raised", "raised">>
        /\ safe[t].ret = unavailable_msg

\* the order of the positions of an item: from outside or from the item
\* before to the lookup's two ways; the name dispatch, the evaluation
\* dispatch and the insert one after the other, each dispatch with or
\* without its live part
PipelineOrder ==
    {<<"idle", "reuse">>, <<"idle", "name_check">>, <<"idle", "next">>,
     <<"next", "reuse">>, <<"next", "name_check">>, <<"next", "idle">>,
     <<"reuse", "idle">>, <<"reuse", "next">>,
     <<"name_check", "name_live">>, <<"name_check", "eval_check">>,
     <<"name_live", "eval_check">>,
     <<"eval_check", "eval_live">>, <<"eval_check", "insert">>,
     <<"eval_live", "insert">>,
     <<"insert", "idle">>, <<"insert", "next">>}

\* C32: an item passes its positions in the order lookup, then the reused
\* result or name dispatch, evaluation dispatch, decision and insert.  A
\* row is written only by the step that has the evaluation's text and
\* decides, that step makes no dispatch and writes one row; a "new" item has
\* made two dispatches and found nothing at its lookup; a "reused" item has
\* made none and writes no row.
C32_StepOrder ==
    [][/\ \A t \in Threads :
            /\ req'[t].pc # req[t].pc =>
                  <<req[t].pc, req'[t].pc>> \in PipelineOrder
            /\ (Ends(t) /\ Finished.status = "new") =>
                  /\ req[t].pc = "insert"
                  /\ req[t].existing_id = 0
                  /\ req[t].raw # None
                  /\ Finished.dispatches = 2 /\ Finished.evals = 1
                  /\ Cardinality(candidates') = Cardinality(candidates) + 1
            /\ (Ends(t) /\ Finished.status = "reused") =>
                  /\ req[t].pc = "reuse"
                  /\ req[t].existing_id # 0
                  /\ Finished.dispatches = 0 /\ Finished.evals = 0
                  /\ candidates' = candidates
            /\ (Ends(t) /\ req[t].pc = "insert") =>
                  /\ Finished.dispatches = req[t].dispatches
                  /\ cache' = cache /\ bucket' = bucket
       /\ ~(candidates' \subseteq candidates) =>
            \E t \in Threads :
                /\ Ends(t) /\ req[t].pc = "insert"
                /\ Finished.status = "new"
                /\ candidates \subseteq candidates']_vars

\* one item has ended "new" after its two dispatches, a later one "reused"
\* without any
C32_Witness ==
    /\ Len(done) = 2
    /\ done[1].status = "new" /\ done[1].dispatches = 2
    /\ done[2].status = "reused" /\ done[2].dispatches = 0

\* a clear_dashboard call ends with this step
Clearing == Len(done') = Len(done) + 1 /\ Finished.status = "cleared"

\* C33 as stated: a step that is not a clear leaves every row of the table
\* in place with its fields; a clear removes all rows, and the row inserted
\* into the table that a clear emptied gets id 1.
C33_OnlyClearRemoves ==
    [][/\ ~Clearing => candidates \subseteq candidates'
       /\ Clearing => candidates' = {} /\ sqlite_sequence' = 0
       /\ \A row \in candidates' \ candidates :
            (candidates = {} /\ \E i \in DOMAIN done : done[i].status = "cleared") =>
                Col(row, 0) = 1]_vars

\* every provider of the dispatch of thread t has failed
NoResultLeft(t) == th[t].pc = "finish" /\ th[t].result = None

\* thread u holds the advisory string that its dispatch returned
Advised(u) == th[u].pc = "returned" /\ ~th[u].sim /\ th[u].ret = overload_msg

\* C34: no entry of the cache is the advisory string; the dispatch whose
\* providers all failed returns the advisory string and leaves the cache as
\* it was; a dispatch made after it with the same key is not answered with
\* the advisory string from the cache, and goes to the providers when the
\* cache has no entry for the key.
C34_AdvisoryNotCached ==
    [][/\ \A k \in DOMAIN cache' : cache'[k] # overload_msg
       /\ \A t \in Threads :
            (NoResultLeft(t) /\ th'[t].pc = "returned") =>
                /\ th'[t].ret = overload_msg
                /\ cache' = cache
       /\ \A t, u \in Threads :
            (/\ th[t].pc = "idle" /\ th'[t].pc \in {"provider", "returned"}
             /\ ~th'[t].sim
             /\ Advised(u) /\ th[u].key = th'[t].key) =>
                /\ th'[t].hit => th'[t].ret # overload_msg
                /\ ~Has(cache, th'[t].key) =>
                      th'[t].pc = "provider" /\ th'[t].calls = << >>]_vars

\* a dispatch got the advisory string after both providers had failed, the
\* cache has no entry for its key, and the second dispatch, with the same
\* key, is at the head of the provider loop
C34_Witness ==
    \E t, u \in Threads :
        /\ Advised(u) /\ Len(th[u].calls) = 2
        /\ ~Has(cache, th[u].key)
        /\ dispatched = 2
        /\ th[t].pc = "provider" /\ th[t].key = th[u].key
        /\ th[t].idx = 1 /\ th[t].calls = << >>

\* the rows that were stored for the pair of texts from the fallback
\* evaluation of analyze_fit
FallbackRows(resume_text, job_description) ==
    {row \in candidates :
        /\ Col(row, 2) = resume_text /\ Col(row, 3) = job_description
        /\ Col(row, 4) = "0"
        /\ Col(row, 7) = "Evaluation could not be generated reliably."}

\* C35: while the table holds a row stored for a pair of texts from the
\* fallback evaluation, the loop head of a submission of the pair goes to
\* the reuse branch with the id of such a row, and the item ends "reused"
\* with that id, with no dispatch and no evaluation made, the table and the
\* cache as they were.
C35_FallbackFinal ==
    [][\A t \in Threads :
         /\ (/\ req[t].pc \in {"idle", "next"}
             /\ req'[t].pc \in {"reuse", "name_check"}
             /\ FallbackRows(req'[t].resume_text, req'[t].job_description) # {}) =>
                /\ req'[t].pc = "reuse"
                /\ req'[t].dispatches = 0
                /\ \E row \in FallbackRows(req'[t].resume_text, req'[t].job_description) :
                      Col(row, 0) = req'[t].existing_id
         /\ (/\ Ends(t)
             /\ req[t].pc = "reuse"
             /\ \E row \in FallbackRows(req[t].resume_text, req[t].job_description) :
                   Col(row, 0) = req[t].existing_id) =>
                /\ Finished.status = "reused"
                /\ Finished.candidate_id = req[t].existing_id
                /\ Finished.dispatches = 0 /\ Finished.evals = 0
                /\ candidates' = candidates /\ cache' = cache /\ paid' = paid]_vars

\* a submission ended "new" with the row of the fallback evaluation, and a
\* later submission of the same pair ended "reused" with the id of that row
\* and no dispatch
C35_Witness ==
    /\ Len(done) = 2
    /\ done[1].status = "new" /\ done[1].score = "0"
    /\ done[2].status = "reused" /\ done[2].pair = done[1].pair
    /\ done[2].candidate_id = done[1].candidate_id
    /\ done[2].dispatches = 0
    /\ \E row \in FallbackRows(done[1].pair[1], done[1].pair[2]) :
          Col(row, 0) = done[2].candidate_id

\* the provider invocations of a dispatch that got past the rate-limit
\* check
Taken(s) ==
    Cardinality({i \in DOMAIN s.calls : s.calls[i].outcome \in {"ok", "sdk_error"}})

====
